---- MODULE Spec2Model ----
(***************************************************************************)
(* Model of the Qrack amplitude engine's gate layer and measurement layer  *)
(* (src/src/qengine/qengine.cpp).                                          *)
(*                                                                         *)
(* Amplitudes are Gaussian integers <<re, im>>.  The real amplitude at     *)
(* index x is amps[x] / sqrt(normUnits): a state is normalized exactly     *)
(* when the squared magnitudes of amps sum to normUnits.  Probabilities    *)
(* and random thresholds are therefore integers in units of 1/normUnits.   *)
(* Gate matrices are written in units of 1/2 (ONE_R1 / 2 is 1).            *)
(***************************************************************************)
EXTENDS Integers, Sequences, FiniteSets, TLC

VARIABLES
    qubitCount,   \* number of qubits of the engine
    amps,         \* the amplitude container: index -> <<re, im>>
    normUnits,    \* squared norm that counts as probability 1
    doNormalize,  \* the engine's lazy-normalization flag
    pre,          \* the engine state on entry of the last call
    last,         \* the last call: operation, arguments, what it handed on
    pass,         \* the Apply2x2 pass in flight (parallel model)
    nextIdx,      \* next reduced index to hand to a worker
    workers       \* worker -> what it holds

vars == <<qubitCount, amps, normUnits, doNormalize, pre, last, pass, nextIdx, workers>>

(***************************************************************************)
(* Bounds of the model.                                                    *)
(***************************************************************************)
GateQubits == 3
MeasQubits == 2
ProbQubits == 4
NumWorkers == 2

(***************************************************************************)
(* bitCapInt: an unsigned integer; the model keeps 16 of its bits, which   *)
(* is wider than every index and mask used here, so that ~x and x - 1 at   *)
(* x = 0 behave as the unsigned type does.                                 *)
(***************************************************************************)
bitCapIntBits == 16

RECURSIVE Pow2(_)
Pow2(k) == IF k = 0 THEN 1 ELSE 2 * Pow2(k - 1)

bitCapIntMod == Pow2(bitCapIntBits)

Wrap(x) == x % bitCapIntMod

RECURSIVE BitAnd(_, _)
BitAnd(a, b) ==
    IF a = 0 \/ b = 0 THEN 0
    ELSE (a % 2) * (b % 2) + 2 * BitAnd(a \div 2, b \div 2)

RECURSIVE BitOr(_, _)
BitOr(a, b) ==
    IF a = 0 THEN b
    ELSE IF b = 0 THEN a
    ELSE (IF a % 2 = 1 \/ b % 2 = 1 THEN 1 ELSE 0) + 2 * BitOr(a \div 2, b \div 2)

RECURSIVE BitXor(_, _)
BitXor(a, b) ==
    IF a = 0 THEN b
    ELSE IF b = 0 THEN a
    ELSE ((a + b) % 2) + 2 * BitXor(a \div 2, b \div 2)

BitNot(a) == (bitCapIntMod - 1) - a

Shl(a, k) == Wrap(a * Pow2(k))

TestBit(x, q) == (x \div Pow2(q)) % 2 = 1

Qubits == 0 .. (qubitCount - 1)
maxQPower == Pow2(qubitCount)
Indices == 0 .. (maxQPower - 1)

(***************************************************************************)
(* Complex arithmetic on Gaussian integers.                                *)
(***************************************************************************)
CAdd(a, b) == <<a[1] + b[1], a[2] + b[2]>>
CMul(a, b) == <<a[1] * b[1] - a[2] * b[2], a[1] * b[2] + a[2] * b[1]>>
CHalf(a) == <<a[1] \div 2, a[2] \div 2>>
Norm2(a) == a[1] * a[1] + a[2] * a[2]
ZERO_CMPLX == <<0, 0>>

(* The 2x2 matrices of the gate layer, row-major, in units of 1/2. *)
pauliX == << <<0, 0>>, <<2, 0>>, <<2, 0>>, <<0, 0>> >>
sqrtX == << <<1, 1>>, <<1, -1>>, <<1, -1>>, <<1, 1>> >>
iSqrtX == << <<1, -1>>, <<1, 1>>, <<1, 1>>, <<1, -1>> >>
Matrices == {pauliX, sqrtX, iSqrtX}

(***************************************************************************)
(* std::sort on a list of bit powers (ascending).                          *)
(***************************************************************************)
RECURSIVE InsertSorted(_, _)
InsertSorted(s, v) ==
    IF s = <<>> THEN <<v>>
    ELSE IF v <= Head(s) THEN <<v>> \o s
    ELSE <<Head(s)>> \o InsertSorted(Tail(s), v)

RECURSIVE SortAsc(_)
SortAsc(s) == IF s = <<>> THEN <<>> ELSE InsertSorted(SortAsc(Tail(s)), Head(s))

RECURSIVE OrAll(_)
OrAll(s) == IF s = <<>> THEN 0 ELSE BitOr(Head(s), OrAll(Tail(s)))

(* qPowers[i] = 1 << controls[i] *)
ControlPowers(controls) == [i \in 1 .. Len(controls) |-> Shl(1, controls[i])]

(***************************************************************************)
(* What a gate hands to Apply2x2: the two offsets, the matrix, the number  *)
(* of bit powers, the sorted bit-power list and the norm-tracking flag.    *)
(* NoApply2x2 stands for a call that returned without invoking Apply2x2.   *)
(***************************************************************************)
Apply2x2Args(offset1, offset2, mtrx, bitCount, qPowersSorted, doCalcNorm) ==
    [invoked |-> TRUE, offset1 |-> offset1, offset2 |-> offset2, mtrx |-> mtrx,
     bitCount |-> bitCount, qPowersSorted |-> qPowersSorted, doCalcNorm |-> doCalcNorm]

NoApply2x2 ==
    [invoked |-> FALSE, offset1 |-> 0, offset2 |-> 0, mtrx |-> <<>>,
     bitCount |-> 0, qPowersSorted |-> <<>>, doCalcNorm |-> FALSE]

ApplySingleBit(mtrx, doCalcNorm, qubit) ==
    LET qPowers == <<Shl(1, qubit)>>
    IN  Apply2x2Args(0, qPowers[1], mtrx, 1, qPowers, doCalcNorm)

(* CSwap with the control mask left out of the two offsets *)
CSwapNoControlMask(controls, controlLen, qubit1, qubit2) ==
    IF qubit1 = qubit2 THEN NoApply2x2
    ELSE LET ctl == ControlPowers(controls)
             qPowersSorted == SortAsc(ctl \o <<Shl(1, qubit1), Shl(1, qubit2)>>)
         IN  Apply2x2Args(Shl(1, qubit1), Shl(1, qubit2),
                          pauliX, 2 + controlLen, qPowersSorted, FALSE)

CSwap(controls, controlLen, qubit1, qubit2) ==
    IF qubit1 = qubit2 THEN NoApply2x2
    ELSE LET ctl == ControlPowers(controls)
             skipMask == OrAll(ctl)
             qPowersSorted == SortAsc(ctl \o <<Shl(1, qubit1), Shl(1, qubit2)>>)
         IN  Apply2x2Args(BitOr(skipMask, Shl(1, qubit1)), BitOr(skipMask, Shl(1, qubit2)),
                          pauliX, 2 + controlLen, qPowersSorted, FALSE)

(* AntiCSwap with the control mask put into the two offsets *)
AntiCSwapControlMask(controls, controlLen, qubit1, qubit2) ==
    IF qubit1 = qubit2 THEN NoApply2x2
    ELSE LET ctl == ControlPowers(controls)
             skipMask == OrAll(ctl)
             qPowersSorted == SortAsc(ctl \o <<Shl(1, qubit1), Shl(1, qubit2)>>)
         IN  Apply2x2Args(BitOr(skipMask, Shl(1, qubit1)), BitOr(skipMask, Shl(1, qubit2)),
                          pauliX, 2 + controlLen, qPowersSorted, FALSE)

AntiCSwap(controls, controlLen, qubit1, qubit2) ==
    IF qubit1 = qubit2 THEN NoApply2x2
    ELSE LET ctl == ControlPowers(controls)
             qPowersSorted == SortAsc(ctl \o <<Shl(1, qubit1), Shl(1, qubit2)>>)
         IN  Apply2x2Args(Shl(1, qubit1), Shl(1, qubit2),
                          pauliX, 2 + controlLen, qPowersSorted, FALSE)

CSqrtSwap(controls, controlLen, qubit1, qubit2) ==
    IF qubit1 = qubit2 THEN NoApply2x2
    ELSE LET ctl == ControlPowers(controls)
             skipMask == OrAll(ctl)
             qPowersSorted == SortAsc(ctl \o <<Shl(1, qubit1), Shl(1, qubit2)>>)
         IN  Apply2x2Args(BitOr(skipMask, Shl(1, qubit1)), BitOr(skipMask, Shl(1, qubit2)),
                          sqrtX, 2 + controlLen, qPowersSorted, FALSE)

AntiCSqrtSwap(controls, controlLen, qubit1, qubit2) ==
    IF qubit1 = qubit2 THEN NoApply2x2
    ELSE LET ctl == ControlPowers(controls)
             qPowersSorted == SortAsc(ctl \o <<Shl(1, qubit1), Shl(1, qubit2)>>)
         IN  Apply2x2Args(Shl(1, qubit1), Shl(1, qubit2),
                          sqrtX, 2 + controlLen, qPowersSorted, FALSE)

CISqrtSwap(controls, controlLen, qubit1, qubit2) ==
    IF qubit1 = qubit2 THEN NoApply2x2
    ELSE LET ctl == ControlPowers(controls)
             skipMask == OrAll(ctl)
             qPowersSorted == SortAsc(ctl \o <<Shl(1, qubit1), Shl(1, qubit2)>>)
         IN  Apply2x2Args(BitOr(skipMask, Shl(1, qubit1)), BitOr(skipMask, Shl(1, qubit2)),
                          iSqrtX, 2 + controlLen, qPowersSorted, FALSE)

AntiCISqrtSwap(controls, controlLen, qubit1, qubit2) ==
    IF qubit1 = qubit2 THEN NoApply2x2
    ELSE LET ctl == ControlPowers(controls)
             qPowersSorted == SortAsc(ctl \o <<Shl(1, qubit1), Shl(1, qubit2)>>)
         IN  Apply2x2Args(Shl(1, qubit1), Shl(1, qubit2),
                          iSqrtX, 2 + controlLen, qPowersSorted, FALSE)

(* ApplyControlled2x2 without the std::sort of the copied list *)
ApplyControlled2x2Unsorted(controls, controlLen, target, mtrx, doCalcNorm) ==
    LET qPowers == ControlPowers(controls) \o <<Shl(1, target)>>
        controlMask == OrAll(ControlPowers(controls))
        fullMask == BitOr(controlMask, qPowers[controlLen + 1])
    IN  Apply2x2Args(controlMask, fullMask, mtrx, controlLen + 1, qPowers, doCalcNorm)

ApplyControlled2x2(controls, controlLen, target, mtrx, doCalcNorm) ==
    LET qPowers == ControlPowers(controls) \o <<Shl(1, target)>>
        controlMask == OrAll(ControlPowers(controls))
        fullMask == BitOr(controlMask, qPowers[controlLen + 1])
        qPowersSorted == SortAsc(qPowers)
    IN  Apply2x2Args(controlMask, fullMask, mtrx, controlLen + 1, qPowersSorted, doCalcNorm)

ApplyAntiControlled2x2(controls, controlLen, target, mtrx, doCalcNorm) ==
    LET qPowers == ControlPowers(controls) \o <<Shl(1, target)>>
        qPowersSorted == SortAsc(qPowers)
    IN  Apply2x2Args(0, qPowers[controlLen + 1], mtrx, controlLen + 1, qPowersSorted, doCalcNorm)

(* Swap without the std::sort of the two bit powers *)
SwapUnsorted(qubit1, qubit2) ==
    IF qubit1 = qubit2 THEN NoApply2x2
    ELSE LET qPowers == <<Shl(1, qubit1), Shl(1, qubit2)>>
         IN  Apply2x2Args(qPowers[1], qPowers[2], pauliX, 2, qPowers, FALSE)

(* Swap without the early return on equal qubits *)
SwapNoEarlyReturn(qubit1, qubit2) ==
    LET qPowers == <<Shl(1, qubit1), Shl(1, qubit2)>>
        qPowersSorted == SortAsc(qPowers)
    IN  Apply2x2Args(qPowersSorted[1], qPowersSorted[2], pauliX, 2, qPowersSorted, FALSE)

Swap(qubit1, qubit2) ==
    IF qubit1 = qubit2 THEN NoApply2x2
    ELSE LET qPowers == <<Shl(1, qubit1), Shl(1, qubit2)>>
             qPowersSorted == SortAsc(qPowers)
         IN  Apply2x2Args(qPowersSorted[1], qPowersSorted[2], pauliX, 2, qPowersSorted, FALSE)

SqrtSwap(qubit1, qubit2) ==
    IF qubit1 = qubit2 THEN NoApply2x2
    ELSE LET qPowers == <<Shl(1, qubit1), Shl(1, qubit2)>>
             qPowersSorted == SortAsc(qPowers)
         IN  Apply2x2Args(qPowersSorted[1], qPowersSorted[2], sqrtX, 2, qPowersSorted, FALSE)

ISqrtSwap(qubit1, qubit2) ==
    IF qubit1 = qubit2 THEN NoApply2x2
    ELSE LET qPowers == <<Shl(1, qubit1), Shl(1, qubit2)>>
             qPowersSorted == SortAsc(qPowers)
         IN  Apply2x2Args(qPowersSorted[1], qPowersSorted[2], iSqrtX, 2, qPowersSorted, FALSE)

(***************************************************************************)
(* Apply2x2, the unitary application engine.  A reduced index lcv is       *)
(* expanded by opening a zero gap at every bit power of the sorted list;   *)
(* the matrix is applied to the amplitudes at i | offset1 and i | offset2. *)
(***************************************************************************)
RECURSIVE ExpandFrom(_, _, _, _, _)
ExpandFrom(p, iHigh, i, qPowersSorted, bitCount) ==
    IF p > bitCount THEN BitOr(i, iHigh)
    ELSE LET iLow == BitAnd(iHigh, Wrap(qPowersSorted[p] - 1))
         IN  ExpandFrom(p + 1, Shl(BitXor(iHigh, iLow), 1), BitOr(i, iLow),
                        qPowersSorted, bitCount)

ExpandIndex(lcv, qPowersSorted, bitCount) == ExpandFrom(1, lcv, 0, qPowersSorted, bitCount)

ReducedCount(n, bitCount) == Pow2(n) \div Pow2(bitCount)

Slot1(args, lcv) == BitOr(ExpandIndex(lcv, args.qPowersSorted, args.bitCount), args.offset1)
Slot2(args, lcv) == BitOr(ExpandIndex(lcv, args.qPowersSorted, args.bitCount), args.offset2)

Out0(mtrx, Y0, Y1) == CHalf(CAdd(CMul(mtrx[1], Y0), CMul(mtrx[2], Y1)))
Out1(mtrx, Y0, Y1) == CHalf(CAdd(CMul(mtrx[3], Y0), CMul(mtrx[4], Y1)))

(* write2: both amplitudes of the pair; a slot outside the container is not written *)
Write2(a, i1, c1, i2, c2) ==
    [x \in DOMAIN a |-> IF x = i2 THEN c2 ELSE IF x = i1 THEN c1 ELSE a[x]]

Apply2x2Pair(a, args, lcv) ==
    LET i1 == Slot1(args, lcv)
        i2 == Slot2(args, lcv)
        Y0 == IF i1 \in DOMAIN a THEN a[i1] ELSE ZERO_CMPLX
        Y1 == IF i2 \in DOMAIN a THEN a[i2] ELSE ZERO_CMPLX
    IN  Write2(a, i1, Out0(args.mtrx, Y0, Y1), i2, Out1(args.mtrx, Y0, Y1))

RECURSIVE Apply2x2From(_, _, _, _)
Apply2x2From(a, args, lcv, count) ==
    IF lcv >= count THEN a
    ELSE Apply2x2From(Apply2x2Pair(a, args, lcv), args, lcv + 1, count)

Apply2x2(a, n, args) == Apply2x2From(a, args, 0, ReducedCount(n, args.bitCount))

(***************************************************************************)
(* Engine state helpers.                                                   *)
(***************************************************************************)
RECURSIVE SumNorm(_, _)
SumNorm(a, S) ==
    IF S = {} THEN 0
    ELSE LET x == CHOOSE y \in S : TRUE IN Norm2(a[x]) + SumNorm(a, S \ {x})

TotalNorm(a) == SumNorm(a, DOMAIN a)

(* SetPermutation: the state after construction with initial permutation perm *)
SetPermutation(n, perm) == [x \in 0 .. (Pow2(n) - 1) |-> IF x = perm THEN <<2, 0>> ELSE ZERO_CMPLX]

(* SetQuantumState with a different amplitude at every index *)
DistinctState(n) == [x \in 0 .. (Pow2(n) - 1) |-> <<2 * (x + 1), 0>>]

Snapshot == [amps |-> amps, normUnits |-> normUnits, doNormalize |-> doNormalize]

NoCall == [kind |-> "none", op |-> "none"]

Idle ==
    [busy |-> FALSE, lcv |-> 0, i1 |-> 0, i2 |-> 0, phase |-> "idle",
     Y0 |-> ZERO_CMPLX, Y1 |-> ZERO_CMPLX]

NoPass(workerCount) ==
    /\ pass = NoApply2x2
    /\ nextIdx = 0
    /\ workers = [w \in 1 .. workerCount |-> Idle]

InitGate ==
    /\ qubitCount = GateQubits
    /\ amps \in {SetPermutation(GateQubits, perm) : perm \in 0 .. (Pow2(GateQubits) - 1)}
                \cup {DistinctState(GateQubits)}
    /\ normUnits = TotalNorm(amps)
    /\ doNormalize \in BOOLEAN
    /\ pre = Snapshot
    /\ last = NoCall
    /\ NoPass(0)

(***************************************************************************)
(* Probabilities.  A probability is an integer in units of 1 / normUnits.  *)
(***************************************************************************)
(* ProbMask: summed squared magnitude of the amplitudes whose bits under mask
   equal permutation *)
RECURSIVE ProbMaskFrom(_, _, _, _)
ProbMaskFrom(a, mask, permutation, x) ==
    IF x \notin DOMAIN a THEN 0
    ELSE (IF BitAnd(x, mask) = permutation THEN Norm2(a[x]) ELSE 0)
         + ProbMaskFrom(a, mask, permutation, x + 1)

ProbMask(a, mask, permutation) == ProbMaskFrom(a, mask, permutation, 0)

Prob(a, qubit) == ProbMask(a, Shl(1, qubit), Shl(1, qubit))

ProbReg(a, start, length, permutation) ==
    ProbMask(a, Shl(Pow2(length) - 1, start), Shl(permutation, start))

(* for (length = 0; v; length++) { v &= v - 1; } *)
RECURSIVE CountBits(_, _)
CountBits(v, length) ==
    IF v = 0 THEN length ELSE CountBits(BitAnd(v, Wrap(v - 1)), length + 1)

(* the bit powers of ~mask below mask, ascending *)
RECURSIVE SkipPowersFrom(_, _, _)
SkipPowersFrom(v, mask, skipPowersVec) ==
    IF v = 0 THEN skipPowersVec
    ELSE LET oldV == v
             v1 == BitAnd(v, Wrap(v - 1))
             power == BitAnd(BitXor(v1, oldV), oldV)
         IN  IF power < mask
             THEN SkipPowersFrom(v1, mask, Append(skipPowersVec, power))
             ELSE skipPowersVec

(* SkipPowers walking the bits of mask instead of those of ~mask *)
SkipPowersOfMask(mask) == SkipPowersFrom(mask, mask, <<>>)

SkipPowers(mask) == SkipPowersFrom(BitNot(mask), mask, <<>>)

(* the inner loop of ProbMaskAll: enumeration index lcv to the pattern under mask *)
RECURSIVE MaskPatternFrom(_, _, _, _)
MaskPatternFrom(p, iHigh, i, skipPowersVec) ==
    IF p > Len(skipPowersVec) THEN BitOr(i, iHigh)
    ELSE LET iLow == BitAnd(iHigh, Wrap(skipPowersVec[p] - 1))
             i1 == BitOr(i, iLow)
             iHigh1 == Shl(BitXor(iHigh, iLow), 1)
         IN  IF iHigh1 = 0 THEN BitOr(i1, iHigh1)
             ELSE MaskPatternFrom(p + 1, iHigh1, i1, skipPowersVec)

(* the outer loop of ProbMaskAll, from enumeration index lcv on *)
RECURSIVE ProbMaskAllFrom(_, _, _, _, _)
ProbMaskAllFrom(a, mask, skipPowersVec, lcv, lengthPower) ==
    IF lcv >= lengthPower THEN [patterns |-> <<>>, probsArray |-> <<>>]
    ELSE LET i == MaskPatternFrom(1, lcv, 0, skipPowersVec)
             rest == ProbMaskAllFrom(a, mask, skipPowersVec, lcv + 1, lengthPower)
         IN  [patterns |-> (lcv :> i) @@ rest.patterns,
              probsArray |-> (lcv :> ProbMask(a, mask, i)) @@ rest.probsArray]

(* ProbMaskAll: the pattern handed to ProbMask for every enumeration index, and the
   array filled *)
ProbMaskAll(a, mask) ==
    LET length == CountBits(mask, 0)
        lengthPower == Shl(1, length)
    IN  ProbMaskAllFrom(a, mask, SkipPowers(mask), 0, lengthPower)

RECURSIVE ProbRegAllFrom(_, _, _, _, _)
ProbRegAllFrom(a, start, length, lcv, lengthPower) ==
    IF lcv >= lengthPower THEN <<>>
    ELSE (lcv :> ProbReg(a, start, length, lcv))
         @@ ProbRegAllFrom(a, start, length, lcv + 1, lengthPower)

ProbRegAll(a, start, length) == ProbRegAllFrom(a, start, length, 0, Shl(1, length))

(***************************************************************************)
(* Collaborators of the measurement layer.                                 *)
(***************************************************************************)
(* NormalizeState: the squared magnitudes sum to probability 1 again *)
NormalizeState(st) ==
    [st EXCEPT !.normUnits = TotalNorm(st.amps), !.doNormalize = FALSE]

(* ApplyM: zero the amplitudes whose bits under mask differ from result and divide
   the survivors by sqrt(nrmlzr) *)
ApplyM(st, mask, result, nrmlzr) ==
    [st EXCEPT !.amps = [x \in DOMAIN st.amps |->
                            IF BitAnd(x, mask) = result THEN st.amps[x] ELSE ZERO_CMPLX],
               !.normUnits = nrmlzr]

(***************************************************************************)
(* The sampling loop of the unforced measurements.  t2 is twice the drawn  *)
(* threshold, so that thresholds between two probability units are drawn   *)
(* too; garbage is what a read outside probArray returns.                  *)
(***************************************************************************)
RECURSIVE SampleWalk(_, _, _, _, _, _, _, _, _)
SampleWalk(probArray, lengthPower, t2, lcv, lowerProb, largestProb, nrmlzr, result, reads) ==
    IF 2 * lowerProb < t2 /\ lcv < lengthPower
    THEN LET lowerProb1 == lowerProb + probArray[lcv]
         IN  IF largestProb <= probArray[lcv]
             THEN SampleWalk(probArray, lengthPower, t2, lcv + 1, lowerProb1,
                             probArray[lcv], probArray[lcv], lcv, reads \cup {lcv})
             ELSE SampleWalk(probArray, lengthPower, t2, lcv + 1, lowerProb1,
                             largestProb, nrmlzr, result, reads \cup {lcv})
    ELSE [lcv |-> lcv, nrmlzr |-> nrmlzr, result |-> result, reads |-> reads]

SampleLoop(probArray, lengthPower, ONE_R1, t2, garbage) ==
    LET w == SampleWalk(probArray, lengthPower, t2, 0, 0, 0, ONE_R1, lengthPower - 1, {})
    IN  IF w.lcv < lengthPower
        THEN LET lcv == Wrap(w.lcv - 1)
             IN  [probArray |-> probArray, lcv |-> lcv,
                  maxLcv |-> IF lcv > w.lcv THEN lcv ELSE w.lcv,
                  result |-> lcv,
                  nrmlzr |-> IF lcv \in DOMAIN probArray THEN probArray[lcv] ELSE garbage,
                  reads |-> w.reads \cup {lcv}]
        ELSE [probArray |-> probArray, lcv |-> w.lcv, maxLcv |-> w.lcv,
              result |-> w.result, nrmlzr |-> w.nrmlzr, reads |-> w.reads]

NoLoop ==
    [probArray |-> <<>>, lcv |-> 0, maxLcv |-> 0, result |-> 0, nrmlzr |-> 0, reads |-> {}]

(***************************************************************************)
(* The measurement entry points.  Each yields the engine state it leaves,  *)
(* the collaborators it called in order, what it handed to ApplyM and what *)
(* it returned.                                                            *)
(***************************************************************************)
NULL == <<>>

(* if (doNormalize) NormalizeState(), whatever the flag *)
AlwaysNormalize(st0) ==
    [st |-> NormalizeState(st0), trace |-> <<"NormalizeState">>]

(* if (doNormalize) { NormalizeState(); } *)
LazyNormalize(st0) ==
    IF st0.doNormalize THEN [st |-> NormalizeState(st0), trace |-> <<"NormalizeState">>]
    ELSE [st |-> st0, trace |-> <<>>]

Measured(st, trace, mask, result, nrmlzr, ret, loop, lengthPower, news, deletes) ==
    [st |-> ApplyM(st, mask, result, nrmlzr), trace |-> Append(trace, "ApplyM"),
     applyM |-> [mask |-> mask, result |-> result, nrmlzr |-> nrmlzr],
     ret |-> ret, loop |-> loop, lengthPower |-> lengthPower,
     news |-> news, deletes |-> deletes]

(* the single-qubit ForceM comparing prob <= oneChance instead of prob < oneChance *)
ForceMBitInclusive(st0, qubit, result0, doForce, t2) ==
    LET st == LazyNormalize(st0).st
        tr0 == LazyNormalize(st0).trace
        oneChance == Prob(st.amps, qubit)
        result == IF doForce THEN result0 ELSE (t2 <= 2 * oneChance /\ oneChance > 0)
        tr1 == IF doForce THEN Append(tr0, "Prob") ELSE tr0 \o <<"Prob", "Rand">>
        nrmlzr == IF result THEN oneChance ELSE st.normUnits - oneChance
        qPower == Shl(1, qubit)
    IN  Measured(st, tr1, qPower, IF result THEN qPower ELSE 0, nrmlzr, result,
                 NoLoop, 0, 0, 0)

(* bool QEngine::ForceM(bitLenInt qubit, bool result, bool doForce) *)
ForceMBit(st0, qubit, result0, doForce, t2) ==
    LET st == LazyNormalize(st0).st
        tr0 == LazyNormalize(st0).trace
        oneChance == Prob(st.amps, qubit)
        result == IF doForce THEN result0 ELSE (t2 < 2 * oneChance /\ oneChance > 0)
        tr1 == IF doForce THEN Append(tr0, "Prob") ELSE tr0 \o <<"Prob", "Rand">>
        nrmlzr == IF result THEN oneChance ELSE st.normUnits - oneChance
        qPower == Shl(1, qubit)
    IN  Measured(st, tr1, qPower, IF result THEN qPower ELSE 0, nrmlzr, result,
                 NoLoop, 0, 0, 0)

(* M(qubit) is ForceM(qubit, false, false) *)
M(st0, qubit, t2) == ForceMBit(st0, qubit, FALSE, FALSE, t2)

BitsPowers(bits) == [i \in 1 .. Len(bits) |-> Shl(1, bits[i])]

(* result |= values[j] ? (1U << bits[j]) : 0U *)
RECURSIVE ValuesMask(_, _, _)
ValuesMask(bits, values, j) ==
    IF j > Len(bits) THEN 0
    ELSE BitOr(IF values[j] THEN Shl(1, bits[j]) ELSE 0, ValuesMask(bits, values, j + 1))

(* if ((1U << p) & result) i |= qPowers[p] *)
RECURSIVE ExpandResult(_, _, _, _)
ExpandResult(result, qPowers, p, length) ==
    IF p >= length THEN 0
    ELSE BitOr(IF BitAnd(Shl(1, p), result) # 0 THEN qPowers[p + 1] ELSE 0,
               ExpandResult(result, qPowers, p + 1, length))

(* bitCapInt QEngine::ForceM(const bitLenInt* bits, const bitLenInt& length,
   const bool* values) *)
ForceM(st0, bits, length, values, t2, garbage) ==
    IF length = 1
    THEN LET r == IF values = NULL THEN M(st0, bits[1], t2)
                  ELSE ForceMBit(st0, bits[1], values[1], TRUE, t2)
         IN  [r EXCEPT !.ret = IF r.ret THEN Shl(1, bits[1]) ELSE 0]
    ELSE LET st == LazyNormalize(st0).st
             tr0 == LazyNormalize(st0).trace
             qPowers == SortAsc(BitsPowers(bits))
             regMask == OrAll(BitsPowers(bits))
             lengthPower == Shl(1, length)
         IN  IF values # NULL
             THEN LET result == ValuesMask(bits, values, 1)
                      nrmlzr == ProbMask(st.amps, regMask, result)
                  IN  Measured(st, Append(tr0, "ProbMask"), regMask, result, nrmlzr,
                               result, NoLoop, lengthPower, 1, 0)
             ELSE LET probArray == ProbMaskAll(st.amps, regMask).probsArray
                      loop == SampleLoop(probArray, lengthPower, st.normUnits, t2, garbage)
                      result == ExpandResult(loop.result, qPowers, 0, length)
                  IN  Measured(st, tr0 \o <<"Rand", "ProbMaskAll">>, regMask, result,
                               loop.nrmlzr, result, loop, lengthPower, 2, 2)

(* bitCapInt QEngine::ForceMReg(bitLenInt start, bitLenInt length, bitCapInt result,
   bool doForce) *)
ForceMReg(st0, start, length, result0, doForce, t2, garbage) ==
    IF length = 1
    THEN LET r == ForceMBit(st0, start, BitAnd(result0, 1) # 0, doForce, t2)
         IN  [r EXCEPT !.ret = IF r.ret THEN 1 ELSE 0]
    ELSE LET st == LazyNormalize(st0).st
             tr0 == LazyNormalize(st0).trace
             lengthPower == Shl(1, length)
             regMask == Shl(lengthPower - 1, start)
             probArray == ProbRegAll(st.amps, start, length)
             loop == IF doForce THEN NoLoop
                     ELSE SampleLoop(probArray, lengthPower, st.normUnits, t2, garbage)
             nrmlzr == IF doForce THEN st.normUnits ELSE loop.nrmlzr
             result == IF doForce THEN result0 ELSE loop.result
             resultPtr == Shl(result, start)
         IN  Measured(st, tr0 \o <<"Rand", "ProbRegAll">>, regMask, resultPtr, nrmlzr,
                      result, loop, lengthPower, 1, 1)

(***************************************************************************)
(* Inputs of the gate layer.  A control list is a list of qubit indices;   *)
(* the gates require it to name distinct qubits, none of them a target.    *)
(***************************************************************************)
ControlLists == UNION {[1 .. k -> Qubits] : k \in 0 .. qubitCount}

Range(s) == {s[i] : i \in DOMAIN s}

ValidControls(controls, targets) ==
    /\ Cardinality(Range(controls)) = Len(controls)
    /\ Range(controls) \cap targets = {}

(* the working buffers a gate call allocates with new[]: the controlled swaps one
   list after their early return, the controlled 2x2 gates two, the others none
   (their lists are on the stack) *)
GateNews(op, args) ==
    CASE op \in {"CSwap", "AntiCSwap", "CSqrtSwap", "AntiCSqrtSwap", "CISqrtSwap",
                 "AntiCISqrtSwap"} -> IF args.invoked THEN 1 ELSE 0
      [] op \in {"ApplyControlled2x2", "ApplyAntiControlled2x2"} -> 2
      [] OTHER -> 0

(* the delete[] statements the gate call runs after Apply2x2 returns *)
GateDeletes(op, args) ==
    CASE op \in {"CSwap", "AntiCSwap", "CSqrtSwap", "AntiCSqrtSwap", "CISqrtSwap",
                 "AntiCISqrtSwap"} -> IF args.invoked THEN 1 ELSE 0
      [] op \in {"ApplyControlled2x2", "ApplyAntiControlled2x2"} -> 2
      [] OTHER -> 0

GateRecord(op, controls, qubit1, qubit2, mtrx, args) ==
    [kind |-> "gate", op |-> op, controls |-> controls, qubit1 |-> qubit1,
     qubit2 |-> qubit2, mtrx |-> mtrx, apply |-> args, joined |-> TRUE,
     news |-> GateNews(op, args), deletes |-> GateDeletes(op, args)]

(* A gate call, the Apply2x2 pass run to its join. *)
GateCall(op, controls, qubit1, qubit2, mtrx, args) ==
    /\ pre' = Snapshot
    /\ last' = GateRecord(op, controls, qubit1, qubit2, mtrx, args)
    /\ amps' = IF args.invoked THEN Apply2x2(amps, qubitCount, args) ELSE amps
    /\ doNormalize' = IF args.invoked THEN TRUE ELSE doNormalize
    /\ UNCHANGED <<qubitCount, normUnits, pass, nextIdx, workers>>

(***************************************************************************)
(* The Apply2x2 pass as the workers run it: each worker takes the next     *)
(* reduced index, reads the two amplitudes of its pair, then writes them   *)
(* back; the gate returns at the join.                                     *)
(***************************************************************************)
BeginPass(op, controls, qubit1, qubit2, mtrx, args) ==
    /\ pre' = Snapshot
    /\ last' = [GateRecord(op, controls, qubit1, qubit2, mtrx, args) EXCEPT !.joined = ~args.invoked]
    /\ pass' = args
    /\ nextIdx' = 0
    /\ doNormalize' = IF args.invoked THEN TRUE ELSE doNormalize
    /\ UNCHANGED <<qubitCount, amps, normUnits, workers>>

PassCount == ReducedCount(qubitCount, pass.bitCount)

WorkerFetch(w) ==
    /\ pass.invoked
    /\ ~workers[w].busy
    /\ nextIdx < PassCount
    /\ workers' = [workers EXCEPT ![w] = [Idle EXCEPT !.busy = TRUE, !.lcv = nextIdx,
                                                     !.i1 = Slot1(pass, nextIdx),
                                                     !.i2 = Slot2(pass, nextIdx),
                                                     !.phase = "fetched"]]
    /\ nextIdx' = nextIdx + 1
    /\ UNCHANGED <<qubitCount, amps, normUnits, doNormalize, pre, last, pass>>

WorkerRead(w) ==
    /\ workers[w].phase = "fetched"
    /\ workers' = [workers EXCEPT ![w] = [workers[w] EXCEPT
                                              !.phase = "read",
                                              !.Y0 = amps[workers[w].i1],
                                              !.Y1 = amps[workers[w].i2]]]
    /\ UNCHANGED <<qubitCount, amps, normUnits, doNormalize, pre, last, pass, nextIdx>>

WorkerWrite(w) ==
    /\ workers[w].phase = "read"
    /\ amps' = Write2(amps, workers[w].i1, Out0(pass.mtrx, workers[w].Y0, workers[w].Y1),
                      workers[w].i2, Out1(pass.mtrx, workers[w].Y0, workers[w].Y1))
    /\ workers' = [workers EXCEPT ![w] = Idle]
    /\ UNCHANGED <<qubitCount, normUnits, doNormalize, pre, last, pass, nextIdx>>

Join ==
    /\ pass.invoked
    /\ nextIdx = PassCount
    /\ \A w \in DOMAIN workers : ~workers[w].busy
    /\ pass' = NoApply2x2
    /\ nextIdx' = 0
    /\ last' = [last EXCEPT !.joined = TRUE]
    /\ UNCHANGED <<qubitCount, amps, normUnits, doNormalize, pre, workers>>

(* With no worker threads the pass runs inline; otherwise the workers run it. *)
Run(op, controls, qubit1, qubit2, mtrx, args) ==
    IF DOMAIN workers = {}
    THEN GateCall(op, controls, qubit1, qubit2, mtrx, args)
    ELSE BeginPass(op, controls, qubit1, qubit2, mtrx, args)

CallSwap ==
    \E q1 \in Qubits, q2 \in Qubits :
        Run("Swap", <<>>, q1, q2, <<>>, Swap(q1, q2))

CallSqrtSwap ==
    \E q1 \in Qubits, q2 \in Qubits :
        Run("SqrtSwap", <<>>, q1, q2, <<>>, SqrtSwap(q1, q2))

CallISqrtSwap ==
    \E q1 \in Qubits, q2 \in Qubits :
        Run("ISqrtSwap", <<>>, q1, q2, <<>>, ISqrtSwap(q1, q2))

CallCSwap ==
    \E controls \in ControlLists, q1 \in Qubits, q2 \in Qubits :
        /\ q1 = q2 \/ ValidControls(controls, {q1, q2})
        /\ Run("CSwap", controls, q1, q2, <<>>, CSwap(controls, Len(controls), q1, q2))

CallAntiCSwap ==
    \E controls \in ControlLists, q1 \in Qubits, q2 \in Qubits :
        /\ q1 = q2 \/ ValidControls(controls, {q1, q2})
        /\ Run("AntiCSwap", controls, q1, q2, <<>>, AntiCSwap(controls, Len(controls), q1, q2))

CallCSqrtSwap ==
    \E controls \in ControlLists, q1 \in Qubits, q2 \in Qubits :
        /\ q1 = q2 \/ ValidControls(controls, {q1, q2})
        /\ Run("CSqrtSwap", controls, q1, q2, <<>>, CSqrtSwap(controls, Len(controls), q1, q2))

CallAntiCSqrtSwap ==
    \E controls \in ControlLists, q1 \in Qubits, q2 \in Qubits :
        /\ q1 = q2 \/ ValidControls(controls, {q1, q2})
        /\ Run("AntiCSqrtSwap", controls, q1, q2, <<>>,
                    AntiCSqrtSwap(controls, Len(controls), q1, q2))

CallCISqrtSwap ==
    \E controls \in ControlLists, q1 \in Qubits, q2 \in Qubits :
        /\ q1 = q2 \/ ValidControls(controls, {q1, q2})
        /\ Run("CISqrtSwap", controls, q1, q2, <<>>, CISqrtSwap(controls, Len(controls), q1, q2))

CallAntiCISqrtSwap ==
    \E controls \in ControlLists, q1 \in Qubits, q2 \in Qubits :
        /\ q1 = q2 \/ ValidControls(controls, {q1, q2})
        /\ Run("AntiCISqrtSwap", controls, q1, q2, <<>>,
                    AntiCISqrtSwap(controls, Len(controls), q1, q2))

CallApplySingleBit ==
    \E mtrx \in Matrices, doCalcNorm \in BOOLEAN, qubit \in Qubits :
        Run("ApplySingleBit", <<>>, qubit, qubit, mtrx,
            ApplySingleBit(mtrx, doCalcNorm, qubit))

CallApplyControlled2x2 ==
    \E controls \in ControlLists, target \in Qubits, mtrx \in Matrices, doCalcNorm \in BOOLEAN :
        /\ ValidControls(controls, {target})
        /\ Run("ApplyControlled2x2", controls, target, target, mtrx,
                    ApplyControlled2x2(controls, Len(controls), target, mtrx, doCalcNorm))

CallApplyAntiControlled2x2 ==
    \E controls \in ControlLists, target \in Qubits, mtrx \in Matrices, doCalcNorm \in BOOLEAN :
        /\ ValidControls(controls, {target})
        /\ Run("ApplyAntiControlled2x2", controls, target, target, mtrx,
                    ApplyAntiControlled2x2(controls, Len(controls), target, mtrx, doCalcNorm))

(* The gate layer, one call on a freshly set state. *)
Fresh == last = NoCall

NextGate ==
    \/ Fresh /\ CallSwap
    \/ Fresh /\ CallSqrtSwap
    \/ Fresh /\ CallISqrtSwap
    \/ Fresh /\ CallCSwap
    \/ Fresh /\ CallAntiCSwap
    \/ Fresh /\ CallCSqrtSwap
    \/ Fresh /\ CallAntiCSqrtSwap
    \/ Fresh /\ CallCISqrtSwap
    \/ Fresh /\ CallAntiCISqrtSwap
    \/ Fresh /\ CallApplySingleBit
    \/ Fresh /\ CallApplyControlled2x2
    \/ Fresh /\ CallApplyAntiControlled2x2

SpecGate == InitGate /\ [][NextGate]_vars

InitPar ==
    /\ qubitCount = GateQubits
    /\ amps = DistinctState(GateQubits)
    /\ normUnits = TotalNorm(amps)
    /\ doNormalize = FALSE
    /\ pre = Snapshot
    /\ last = NoCall
    /\ NoPass(NumWorkers)

Fetch == \E w \in DOMAIN workers : WorkerFetch(w)
Read == \E w \in DOMAIN workers : WorkerRead(w)
Write == \E w \in DOMAIN workers : WorkerWrite(w)

NextPar ==
    \/ Fresh /\ CallSwap
    \/ Fresh /\ CallSqrtSwap
    \/ Fresh /\ CallISqrtSwap
    \/ Fresh /\ CallCSwap
    \/ Fresh /\ CallAntiCSwap
    \/ Fresh /\ CallCSqrtSwap
    \/ Fresh /\ CallAntiCSqrtSwap
    \/ Fresh /\ CallCISqrtSwap
    \/ Fresh /\ CallAntiCISqrtSwap
    \/ Fresh /\ CallApplySingleBit
    \/ Fresh /\ CallApplyControlled2x2
    \/ Fresh /\ CallApplyAntiControlled2x2
    \/ Fetch
    \/ Read
    \/ Write
    \/ Join

SpecPar == InitPar /\ [][NextPar]_vars
(***************************************************************************)
(* Properties of the gate layer.                                           *)
(***************************************************************************)
BitVal(x, q) == IF TestBit(x, q) THEN 1 ELSE 0

(* x with the bits at positions q1 and q2 exchanged *)
SwapBits(x, q1, q2) ==
    x - BitVal(x, q1) * Pow2(q1) - BitVal(x, q2) * Pow2(q2)
      + BitVal(x, q2) * Pow2(q1) + BitVal(x, q1) * Pow2(q2)

AllControlsSet(x, controls) == \A i \in DOMAIN controls : TestBit(x, controls[i])
AllControlsClear(x, controls) == \A i \in DOMAIN controls : ~TestBit(x, controls[i])

PairedOps == {"Swap", "SqrtSwap", "ISqrtSwap", "CSwap", "AntiCSwap", "CSqrtSwap",
              "AntiCSqrtSwap", "CISqrtSwap", "AntiCISqrtSwap"}

(* C1: CSwap(controls, q1, q2) with q1 # q2 exchanges the amplitude at x with the
   amplitude at x with bits q1 and q2 swapped exactly when every control bit of x
   is 1 and bits q1, q2 of x differ; every other amplitude is left unchanged. *)
C1_CSwapExchanges ==
    (last.kind = "gate" /\ last.op = "CSwap" /\ last.qubit1 # last.qubit2) =>
        \A x \in Indices :
            amps[x] = IF /\ AllControlsSet(x, last.controls)
                         /\ TestBit(x, last.qubit1) # TestBit(x, last.qubit2)
                      THEN pre.amps[SwapBits(x, last.qubit1, last.qubit2)]
                      ELSE pre.amps[x]

(* C1 witness: 3 qubits, control 0, targets 1 and 2, from qubit0=1, qubit1=1,
   qubit2=0 (index 3) to qubit0=1, qubit1=0, qubit2=1 (index 5). *)
C1_Witness ==
    /\ last.kind = "gate" /\ last.op = "CSwap"
    /\ last.controls = <<0>> /\ last.qubit1 = 1 /\ last.qubit2 = 2
    /\ pre.amps = SetPermutation(3, 3)
    /\ amps = SetPermutation(3, 5)

IsBitPower(v) == \E k \in 0 .. (bitCapIntBits - 1) : v = Pow2(k)

PassSlots(args, lcv) == {Slot1(args, lcv), Slot2(args, lcv)}

HeldSlots(w) ==
    IF workers[w].busy THEN {workers[w].i1, workers[w].i2} ELSE {}

(* C4: every gate-layer entry point hands Apply2x2 a bit-power list sorted ascending
   with exactly bitCount distinct powers and two distinct offsets inside the union of
   the list; the amplitude pairs of distinct reduced indices are disjoint (the
   2 * count slots of the pass are all different), and two workers in flight never
   hold a common amplitude slot.  The arguments do not change during a pass, so they
   are examined when the pass starts and when it has joined. *)
C4_DisjointPairs ==
    /\ (last.kind = "gate" /\ last.apply.invoked /\ nextIdx = 0) =>
        LET args == last.apply
            union == OrAll(args.qPowersSorted)
            count == ReducedCount(qubitCount, args.bitCount)
        IN  /\ Len(args.qPowersSorted) = args.bitCount
            /\ \A i \in 1 .. args.bitCount : IsBitPower(args.qPowersSorted[i])
            /\ \A i \in 1 .. (args.bitCount - 1) :
                   args.qPowersSorted[i] < args.qPowersSorted[i + 1]
            /\ args.offset1 # args.offset2
            /\ BitAnd(args.offset1, union) = args.offset1
            /\ BitAnd(args.offset2, union) = args.offset2
            /\ UNION {PassSlots(args, lcv) : lcv \in 0 .. (count - 1)} \subseteq Indices
            /\ Cardinality(UNION {PassSlots(args, lcv) : lcv \in 0 .. (count - 1)})
                   = 2 * count
    /\ \A w1 \in DOMAIN workers, w2 \in DOMAIN workers :
           w1 # w2 => HeldSlots(w1) \cap HeldSlots(w2) = {}

(* C4 witness: two workers hold their pairs at the same time in a controlled pass. *)
C4_Witness ==
    /\ last.kind = "gate" /\ last.op = "ApplyControlled2x2" /\ Len(last.controls) = 1
    /\ workers[1].phase = "read"
    /\ workers[2].phase = "read"

AntiOps == {"AntiCSwap", "AntiCSqrtSwap", "AntiCISqrtSwap"}

(* the matrix the corresponding controlled gate hands to Apply2x2 *)
ControlledMatrix(op, controls, qubit1, qubit2) ==
    CASE op = "AntiCSwap" -> CSwap(controls, Len(controls), qubit1, qubit2).mtrx
      [] op = "AntiCSqrtSwap" -> CSqrtSwap(controls, Len(controls), qubit1, qubit2).mtrx
      [] op = "AntiCISqrtSwap" -> CISqrtSwap(controls, Len(controls), qubit1, qubit2).mtrx

(* C8: an anti-controlled gate transforms exactly the amplitude pairs whose control
   bits are all 0, with the matrix of the corresponding controlled gate; every
   amplitude at an index with a control bit equal to 1 is left unchanged. *)
C8_AntiControlled ==
    /\ (last.kind = "gate" /\ last.op \in AntiOps /\ last.qubit1 # last.qubit2) =>
          LET m == ControlledMatrix(last.op, last.controls, last.qubit1, last.qubit2)
              q1 == last.qubit1
              q2 == last.qubit2
          IN  /\ last.apply.mtrx = m
              /\ \A x \in Indices :
                    amps[x] =
                       IF ~AllControlsClear(x, last.controls) THEN pre.amps[x]
                       ELSE IF TestBit(x, q1) = TestBit(x, q2) THEN pre.amps[x]
                       ELSE IF TestBit(x, q1)
                            THEN Out0(m, pre.amps[x], pre.amps[SwapBits(x, q1, q2)])
                            ELSE Out1(m, pre.amps[SwapBits(x, q1, q2)], pre.amps[x])
    /\ (last.kind = "gate" /\ last.op = "ApplyAntiControlled2x2") =>
          LET m == last.mtrx
              t == Pow2(last.qubit1)
          IN  /\ last.apply.mtrx = m
              /\ \A x \in Indices :
                    amps[x] =
                       IF ~AllControlsClear(x, last.controls) THEN pre.amps[x]
                       ELSE IF ~TestBit(x, last.qubit1)
                            THEN Out0(m, pre.amps[x], pre.amps[x + t])
                            ELSE Out1(m, pre.amps[x - t], pre.amps[x])

(* C8 witness: an anti-controlled sqrt-swap with one control changed an amplitude
   pair with the control bit 0 and left the state with the control bit 1 alone. *)
C8_Witness ==
    /\ last.kind = "gate" /\ last.op = "AntiCSqrtSwap"
    /\ Len(last.controls) = 1 /\ last.qubit1 # last.qubit2
    /\ pre.amps = DistinctState(qubitCount)
    /\ \E x \in Indices : AllControlsClear(x, last.controls) /\ amps[x] # pre.amps[x]
    /\ \E x \in Indices : ~AllControlsClear(x, last.controls) /\ amps[x] = pre.amps[x]

(* C9: a paired-qubit operation called with qubit1 = qubit2 returns at once, for any
   control list: no bit-power list is built, Apply2x2 is not invoked, and the
   amplitudes and the normalization state are unchanged. *)
C9_EqualQubitsNoOp ==
    (last.kind = "gate" /\ last.op \in PairedOps /\ last.qubit1 = last.qubit2) =>
        /\ ~last.apply.invoked
        /\ last.apply.qPowersSorted = <<>>
        /\ amps = pre.amps
        /\ doNormalize = pre.doNormalize
        /\ normUnits = pre.normUnits

(* C9 witness: a controlled swap of a qubit with itself, the control list naming it. *)
C9_Witness ==
    /\ last.kind = "gate" /\ last.op = "CSwap"
    /\ last.qubit1 = last.qubit2
    /\ Len(last.controls) = 2 /\ last.controls[1] = last.qubit1
    /\ ~pre.doNormalize
(***************************************************************************)
(* Swap called again and again on the engine.                              *)
(***************************************************************************)
NextSwap == CallSwap

SpecSwap == InitGate /\ [][NextSwap]_vars

IsSwapOf(call, q1, q2) ==
    /\ call.kind = "gate" /\ call.op = "Swap"
    /\ call.qubit1 = q1 /\ call.qubit2 = q2

(* C7: one Swap(q1, q2), q1 # q2, moves the amplitude at x to the index with bits q1
   and q2 exchanged, whichever of q1, q2 is larger; a second Swap(q1, q2) right after
   it returns every amplitude to its original index. *)
C7_SwapInvolution ==
    /\ [](\A q1 \in Qubits, q2 \in Qubits :
            (q1 # q2 /\ IsSwapOf(last, q1, q2)) =>
                \A x \in Indices : amps[SwapBits(x, q1, q2)] = pre.amps[x])
    /\ [][\A q1 \in Qubits, q2 \in Qubits :
            (q1 # q2 /\ IsSwapOf(last, q1, q2) /\ IsSwapOf(last', q1, q2)) =>
                amps' = pre.amps]_vars

(* C7 witness: Swap(2, 0) applied twice to a state of distinct amplitudes. *)
C7_Witness ==
    /\ IsSwapOf(last, 2, 0)
    /\ pre.amps # DistinctState(qubitCount)
    /\ amps = DistinctState(qubitCount)
(***************************************************************************)
(* The measurement layer, one call on a freshly set state.                 *)
(***************************************************************************)
(* amplitudes SetQuantumState is given: 1 and 1 + i *)
AmpValues == {<<1, 0>>, <<1, 1>>}

(* the states SetQuantumState is given: amplitude u on basis state x, and amplitude 1
   on basis state y unless y = x *)
TwoLevel(n, x, u, y) ==
    [z \in 0 .. (Pow2(n) - 1) |->
        IF z = x THEN u ELSE IF z = y THEN <<1, 0>> ELSE ZERO_CMPLX]

(* The state is normalized (drift 0), or its norm has drifted below 1 (drift 1); with
   lazy normalization on, the drift is pending until NormalizeState runs. *)
InitMeasure ==
    /\ qubitCount = MeasQubits
    /\ amps \in {TwoLevel(MeasQubits, x, u, y) :
                    x \in 0 .. (Pow2(MeasQubits) - 1), u \in AmpValues,
                    y \in 0 .. (Pow2(MeasQubits) - 1)}
    /\ doNormalize \in BOOLEAN
    /\ \E drift \in 0 .. 1 :
           /\ doNormalize => drift = 1
           /\ normUnits = TotalNorm(amps) + drift
    /\ pre = Snapshot
    /\ last = NoCall
    /\ NoPass(0)

(* twice the thresholds Rand() can return: 0, 1/2, 1, ... below probability 1 *)
Thresholds ==
    LET one == IF doNormalize THEN TotalNorm(amps) ELSE normUnits
    IN  0 .. (2 * one - 1)

(* what a read outside probArray may return; only a skipped loop (threshold 0)
   reads outside it *)
GarbageReads == {0, 1, normUnits}

BitLists ==
    {bits \in UNION {[1 .. k -> Qubits] : k \in 1 .. qubitCount} :
        Cardinality(Range(bits)) = Len(bits)}

MeasureCall(op, args, out) ==
    /\ pre' = Snapshot
    /\ last' = [kind |-> "measure", op |-> op, args |-> args, out |-> out]
    /\ amps' = last'.out.st.amps
    /\ normUnits' = last'.out.st.normUnits
    /\ doNormalize' = last'.out.st.doNormalize
    /\ UNCHANGED <<qubitCount, pass, nextIdx, workers>>

CallForceMBit ==
    \E qubit \in Qubits, result \in BOOLEAN, doForce \in BOOLEAN, t2 \in Thresholds :
        /\ doForce => t2 = 0
        /\ ~doForce => ~result
        /\ MeasureCall("ForceMBit",
                       [qubit |-> qubit, result |-> result, doForce |-> doForce, t2 |-> t2],
                       ForceMBit(Snapshot, qubit, result, doForce, t2))

CallForceM ==
    \E bits \in BitLists, forced \in BOOLEAN, t2 \in Thresholds, garbage \in GarbageReads :
        \E values \in IF forced THEN [1 .. Len(bits) -> BOOLEAN] ELSE {NULL} :
            /\ forced => t2 = 0
            /\ (forced \/ t2 # 0) => garbage = 0
            /\ MeasureCall("ForceM",
                           [bits |-> bits, length |-> Len(bits), values |-> values, t2 |-> t2,
                            garbage |-> garbage],
                           ForceM(Snapshot, bits, Len(bits), values, t2, garbage))

CallForceMReg ==
    \E start \in Qubits, length \in 1 .. qubitCount, doForce \in BOOLEAN,
       t2 \in Thresholds, garbage \in GarbageReads :
        \E result \in IF doForce THEN 0 .. (Pow2(length) - 1) ELSE {0} :
            /\ start + length <= qubitCount
            /\ doForce => t2 = 0
            /\ (doForce \/ t2 # 0) => garbage = 0
            /\ MeasureCall("ForceMReg",
                           [start |-> start, length |-> length, result |-> result,
                            doForce |-> doForce, t2 |-> t2, garbage |-> garbage],
                           ForceMReg(Snapshot, start, length, result, doForce, t2, garbage))

NextMeasure ==
    \/ Fresh /\ CallForceMBit
    \/ Fresh /\ CallForceM
    \/ Fresh /\ CallForceMReg

SpecMeasure == InitMeasure /\ [][NextMeasure]_vars

(***************************************************************************)
(* The probability queries on a freshly set state.                         *)
(***************************************************************************)
InitProb ==
    /\ qubitCount = ProbQubits
    /\ amps \in {SetPermutation(ProbQubits, perm) : perm \in 0 .. (Pow2(ProbQubits) - 1)}
                \cup {DistinctState(ProbQubits)}
    /\ normUnits = TotalNorm(amps)
    /\ doNormalize = FALSE
    /\ pre = Snapshot
    /\ last = NoCall
    /\ NoPass(0)

ProbCall(op, mask, start, length, patterns, probsArray) ==
    /\ pre' = Snapshot
    /\ last' = [kind |-> "prob", op |-> op, mask |-> mask, start |-> start,
                length |-> length, patterns |-> patterns, probsArray |-> probsArray]
    /\ UNCHANGED <<qubitCount, amps, normUnits, doNormalize, pass, nextIdx, workers>>

CallProbMaskAll ==
    \E mask \in Indices :
        LET r == ProbMaskAll(amps, mask)
        IN  ProbCall("ProbMaskAll", mask, 0, 0, r.patterns, r.probsArray)

CallProbRegAll ==
    \E start \in Qubits, length \in 1 .. qubitCount :
        /\ start + length <= qubitCount
        /\ ProbCall("ProbRegAll", Shl(Pow2(length) - 1, start), start, length, <<>>,
                    ProbRegAll(amps, start, length))

NextProb ==
    \/ Fresh /\ CallProbMaskAll
    \/ Fresh /\ CallProbRegAll

SpecProb == InitProb /\ [][NextProb]_vars
(***************************************************************************)
(* ProbMaskAll enumerates the patterns under the mask.                     *)
(***************************************************************************)
SetBits(mask) == {b \in 0 .. (bitCapIntBits - 1) : TestBit(mask, b)}

(* how many set bits of mask lie below bit b *)
Rank(mask, b) == Cardinality({c \in SetBits(mask) : c < b})

(* pattern carries bit j of lcv at the j-th lowest set bit of mask, and nothing else *)
IsDeposit(mask, lcv, pattern) ==
    /\ \A b \in 0 .. (bitCapIntBits - 1) : TestBit(pattern, b) => b \in SetBits(mask)
    /\ \A b \in SetBits(mask) : TestBit(pattern, b) = TestBit(lcv, Rank(mask, b))

(* the basis states whose bits under mask spell lcv *)
Spelling(mask, lcv) ==
    {x \in Indices : \A b \in SetBits(mask) : TestBit(x, b) = TestBit(lcv, Rank(mask, b))}

(* C3: ProbMaskAll fills one slot per enumeration index lcv below
   2^popcount(mask); slot lcv holds the probability of the pattern that places bit j
   of lcv at the j-th lowest set bit of mask.  Every pattern handed to ProbMask is a
   subset of mask, distinct indices give distinct patterns, and every subset of mask
   is produced exactly once. *)
C3_ProbMaskAllPatterns ==
    (last.kind = "prob" /\ last.op = "ProbMaskAll") =>
        LET mask == last.mask
            slots == 0 .. (Pow2(Cardinality(SetBits(mask))) - 1)
        IN  /\ DOMAIN last.patterns = slots
            /\ DOMAIN last.probsArray = slots
            /\ \A lcv \in slots :
                   /\ IsDeposit(mask, lcv, last.patterns[lcv])
                   /\ last.probsArray[lcv] = SumNorm(amps, Spelling(mask, lcv))
            /\ \A lcv1, lcv2 \in slots :
                   last.patterns[lcv1] = last.patterns[lcv2] => lcv1 = lcv2
            /\ \A sub \in Indices :
                   BitAnd(sub, mask) = sub =>
                       Cardinality({lcv \in slots : last.patterns[lcv] = sub}) = 1

(* ProbMaskAll ran on the mask of qubits 1 and 3 over a state of distinct amplitudes *)
C3_Witness ==
    /\ last.kind = "prob"
    /\ last.op = "ProbMaskAll"
    /\ last.mask = 10
    /\ amps = DistinctState(qubitCount)
    /\ last.patterns[1] = 2
    /\ last.patterns[2] = 8
    /\ last.probsArray[3] > 0
(***************************************************************************)
(* The measurement entry points: lazy normalization, the sampling loop,    *)
(* and ForceMReg against ForceM.                                           *)
(***************************************************************************)
ProbabilityReads == {"Prob", "ProbMask", "ProbMaskAll", "ProbRegAll"}

(* C6: in every measurement entry point, the length == 1 delegations included, a
   set doNormalize flag makes the call invoke NormalizeState before its first
   probability read and before ApplyM; with the flag clear the call never invokes
   NormalizeState. *)
C6_NormalizeFirst ==
    last.kind = "measure" =>
        LET trace == last.out.trace
        IN  /\ \E i \in DOMAIN trace : trace[i] \in ProbabilityReads
            /\ \E i \in DOMAIN trace : trace[i] = "ApplyM"
            /\ pre.doNormalize =>
                   \A i \in DOMAIN trace :
                       trace[i] \in ProbabilityReads \cup {"ApplyM"} =>
                           \E j \in 1 .. (i - 1) : trace[j] = "NormalizeState"
            /\ ~pre.doNormalize =>
                   \A i \in DOMAIN trace : trace[i] # "NormalizeState"

(* a multi-qubit ForceM of length 1 delegated to M with the flag set *)
C6_Witness ==
    /\ last.kind = "measure"
    /\ last.op = "ForceM"
    /\ last.args.length = 1
    /\ last.args.values = NULL
    /\ pre.doNormalize
    /\ last.out.trace = <<"NormalizeState", "Prob", "Rand", "ApplyM">>

(* the call walked the sampling loop: multi-qubit ForceM with values == NULL or
   ForceMReg with doForce false, on more than one qubit *)
Sampled ==
    /\ last.kind = "measure"
    /\ \/ last.op = "ForceM" /\ last.args.values = NULL
       \/ last.op = "ForceMReg" /\ ~last.args.doForce
    /\ last.args.length > 1

RECURSIVE Cumulative(_, _)
Cumulative(p, k) == IF k < 0 THEN 0 ELSE p[k] + Cumulative(p, k - 1)

(* the first enumeration index whose running cumulative probability reaches t2 / 2 *)
FirstReaching(p, lengthPower, t2) ==
    {k \in 0 .. (lengthPower - 1) :
        /\ 2 * Cumulative(p, k) >= t2
        /\ \A j \in 0 .. (k - 1) : 2 * Cumulative(p, j) < t2}

(* C2: the sampling loop selects the first enumeration index k whose running
   cumulative probability reaches the drawn threshold, k = 2^length - 1 included,
   and collapses with the normalizer p[k]. *)
C2_SelectsFirstReaching ==
    Sampled =>
        \A k \in FirstReaching(last.out.loop.probArray, last.out.lengthPower, last.args.t2) :
            /\ last.out.loop.result = k
            /\ last.out.applyM.nrmlzr = last.out.loop.probArray[k]

(* ForceM sampled qubits 0 and 1 of 2|00> + ... with probabilities 2/3, 0, 0, 1/3 at
   threshold 5/6: the cumulative sum first reaches it at index 3, the call selected
   index 0 and collapsed with normalizer 2/3 *)
C2_Witness ==
    /\ Sampled
    /\ last.op = "ForceM"
    /\ last.args.bits = <<0, 1>>
    /\ last.args.t2 = 5
    /\ pre = [amps |-> TwoLevel(qubitCount, 0, <<1, 1>>, 3), normUnits |-> 3,
              doNormalize |-> FALSE]
    /\ FirstReaching(last.out.loop.probArray, last.out.lengthPower, last.args.t2) = {3}
    /\ last.out.loop.lcv = last.out.lengthPower
    /\ last.out.loop.result = 0
    /\ last.out.applyM = [mask |-> 3, result |-> 0, nrmlzr |-> 2]

(* C10: in the sampling loop lcv never exceeds 2^length, the selected enumeration
   index lies in [0, 2^length), and probArray is read only at indices in
   [0, 2^length). *)
C10_LoopInBounds ==
    Sampled =>
        /\ last.out.loop.maxLcv <= last.out.lengthPower
        /\ last.out.loop.result \in 0 .. (last.out.lengthPower - 1)
        /\ last.out.loop.reads \subseteq 0 .. (last.out.lengthPower - 1)

(* at threshold 0 the loop is skipped, lcv-- wraps to the largest bitCapInt and
   probArray is read there *)
C10_Witness ==
    /\ Sampled
    /\ last.args.t2 = 0
    /\ last.out.loop.maxLcv = bitCapIntMod - 1
    /\ last.out.loop.result = bitCapIntMod - 1
    /\ last.out.loop.reads = {bitCapIntMod - 1}

(* the bits of the register start .. start + length - 1, in order *)
RegisterBits(start, length) == [j \in 1 .. length |-> start + j - 1]

(* the values array encoding register value r *)
RegisterValues(r, length) == [j \in 1 .. length |-> TestBit(r, j - 1)]

(* C5: on a register of more than one qubit, ForceMReg(start, length, r, doForce)
   and ForceM on the bits start .. start + length - 1 (values encoding r when
   forced, NULL otherwise), from the same state and threshold, hand ApplyM the same
   mask, the same pattern and the same normalizer. *)
C5_ForceMRegIsForceM ==
    (last.kind = "measure" /\ last.op = "ForceMReg" /\ last.args.length > 1) =>
        LET a == last.args
            values == IF a.doForce THEN RegisterValues(a.result, a.length) ELSE NULL
        IN  last.out.applyM
                = ForceM(pre, RegisterBits(a.start, a.length), a.length, values,
                         a.t2, a.garbage).applyM
(* a forced ForceMReg on a register value of probability strictly between 0 and 1:
   ApplyM got the normalizer ONE_R1, where ForceM hands it that probability *)
C5_Witness ==
    /\ last.kind = "measure"
    /\ last.op = "ForceMReg"
    /\ last.args.length > 1
    /\ last.args.doForce
    /\ ~pre.doNormalize
    /\ LET a == last.args
           p == ProbReg(pre.amps, a.start, a.length, a.result)
       IN  /\ 0 < p
           /\ p < pre.normUnits
           /\ last.out.applyM.nrmlzr = pre.normUnits
           /\ ForceM(pre, RegisterBits(a.start, a.length), a.length,
                     RegisterValues(a.result, a.length), 0, 0).applyM
                  = [mask |-> last.out.applyM.mask, result |-> last.out.applyM.result,
                     nrmlzr |-> p]
(***************************************************************************)
(* The single-qubit ForceM.                                                *)
(***************************************************************************)
(* what counts as probability 1 when the call reads probabilities *)
OneUnits == IF pre.doNormalize THEN TotalNorm(pre.amps) ELSE pre.normUnits

(* the one-probability of qubit on entry, in units of 1 / OneUnits *)
OneChance(qubit) == SumNorm(pre.amps, {x \in DOMAIN pre.amps : TestBit(x, qubit)})

(* C11: the single-qubit ForceM with doForce false returns true exactly when the
   threshold is below the one-probability P and P > 0; it never returns true at
   P = 0 nor false at P = 1, so the normalizer handed to ApplyM (P for true, 1 - P
   for false) is never zero.  With doForce true it returns the supplied result and
   does not consult the sampler. *)
C11_SingleQubitOutcome ==
    (last.kind = "measure" /\ last.op = "ForceMBit") =>
        LET a == last.args
            P == OneChance(a.qubit)
            ret == last.out.ret
            consulted == \E i \in DOMAIN last.out.trace : last.out.trace[i] = "Rand"
        IN  IF a.doForce
            THEN ret = a.result /\ ~consulted
            ELSE /\ consulted
                 /\ ret = (a.t2 < 2 * P /\ P > 0)
                 /\ ret => P > 0
                 /\ ~ret => P < OneUnits
                 /\ last.out.applyM.nrmlzr = (IF ret THEN P ELSE OneUnits - P)
                 /\ last.out.applyM.nrmlzr > 0

(* an unforced call at threshold 0 on a qubit of one-probability 0 returned false
   and collapsed with normalizer 1 *)
C11_Witness ==
    /\ last.kind = "measure"
    /\ last.op = "ForceMBit"
    /\ ~last.args.doForce
    /\ last.args.t2 = 0
    /\ OneChance(last.args.qubit) = 0
    /\ ~last.out.ret
    /\ last.out.applyM.nrmlzr = OneUnits
(***************************************************************************)
(* Working buffers.                                                        *)
(***************************************************************************)
(* the buffers a returned gate call allocated are all released *)
GateBuffersReleased ==
    (last.kind = "gate" /\ last.joined) => last.news = last.deletes

(* C12: every working buffer allocated inside a gate or measurement call is
   released before the call returns, on every exit path, so that no buffer is
   outstanding after the call. *)
C12_BuffersReleased ==
    /\ GateBuffersReleased
    /\ last.kind = "measure" => last.out.news = last.out.deletes

(* a multi-qubit ForceM with values given returned with its bit-power list
   allocated and not released *)
C12_Witness ==
    /\ last.kind = "measure"
    /\ last.op = "ForceM"
    /\ last.args.length > 1
    /\ last.args.values # NULL
    /\ last.out.news = 1
    /\ last.out.deletes = 0
====
